---- MODULE Spec2Model ----
(***************************************************************************)
(* Flow engine of the glycolysis pathway analysis: network_graph,          *)
(* bfs_augmenting_path, edmonds_karp_maxflow (ff_max) and min_cut of       *)
(* src/Data/rouhg.py and src/edit_glycolysis_graph_analysis.py, with the   *)
(* library max-flow of src/notebook/flow_algorithms.py as the reference.   *)
(*                                                                         *)
(* Capacities and flows are Python floats holding integer values; sums,    *)
(* differences and minima of such values are exact, so they are modelled   *)
(* as integers.  Graph objects live in a heap of references, because       *)
(* copy.deepcopy and in-place mutation are what the frame claims are about. *)
(***************************************************************************)
EXTENDS Integers, Sequences, FiniteSets, TLC

\* ---------------------------------------------------------------- bounds
MaxCap == 1

\* Capacities a CSV row may carry; float() accepts a negative number too.
Caps == (0 - 1)..MaxCap

\* ------------------------------------------------------------- constants
None == 0
inf == 1000000

Range(s) == {s[i] : i \in DOMAIN s}

Min(a, b) == IF a < b THEN a ELSE b

\* Python evaluates an argument once, before the call: F is applied to the
\* value of x, not to the expression.
Strict(F(_), x) == CHOOSE r \in {F(v) : v \in {x}} : TRUE

\* ------------------------------------------------------ the input files
\* The edge list of the five-metabolite scenario A->B, A->C, B->D, C->D, D->E
\* (A = 1, ..., E = 5).
ScenarioEdges == << <<1, 2>>, <<1, 3>>, <<2, 4>>, <<3, 4>>, <<4, 5>> >>

ScenarioCaps == <<10, 5, 4, 3, 6>>

\* Two equally short routes share the reaction 4->6, a third one avoids it.
BranchEdges ==
    << <<1, 3>>, <<1, 2>>, <<3, 4>>, <<3, 5>>, <<2, 4>>, <<4, 6>>, <<5, 6>> >>

\* A cycle through node 1, a self loop and a repeated row.
CycleEdges == << <<1, 2>>, <<2, 1>>, <<2, 3>>, <<3, 3>>, <<1, 2>> >>

\* A two-edge route 1->2->5 beside a three-edge route 1->3->4->5.
DetourEdges == << <<1, 2>>, <<1, 3>>, <<3, 4>>, <<4, 5>>, <<2, 5>> >>

Topologies == {ScenarioEdges, BranchEdges, CycleEdges, DetourEdges}

Rows(edges, caps) ==
    [i \in 1..Len(edges) |-> [source |-> edges[i][1], target |-> edges[i][2],
                               capacity |-> caps[i]]]

Files(edges, capacities) ==
    {Rows(edges, c) : c \in [1..Len(edges) -> capacities]}

ScenarioCsv == Rows(ScenarioEdges, ScenarioCaps)

\* The files read: the scenario as given, its edge list and the cyclic one
\* with every capacity a row may carry, the detour with the capacities from
\* 0 up, the long edge list with the positive ones.
CsvFiles ==
    {ScenarioCsv}
    \cup Files(ScenarioEdges, Caps)
    \cup Files(CycleEdges, Caps)
    \cup Files(DetourEdges, 0..MaxCap)
    \cup Files(BranchEdges, 1..MaxCap)

NodeIds == UNION {UNION {{e[1], e[2]} : e \in Range(t)} : t \in Topologies}

\* A node name that occurs in no file.
Absent == 1 + CHOOSE n \in NodeIds : \A m \in NodeIds : m <= n

Names == NodeIds \cup {Absent}

\* ------------------------------------------------------------ the graph
\* nx.DiGraph(): node order and neighbour order are insertion order.
EmptyGraph ==
    [nodes |-> <<>>, succ |-> [n \in NodeIds |-> <<>>], attr |-> <<>>]

add_node(g, n) ==
    IF n \in Range(g.nodes) THEN g ELSE [g EXCEPT !.nodes = Append(@, n)]

\* G.add_edge(u, v, capacity=float(c), flow=0.0): an existing edge keeps its
\* place among the neighbours of u and has its attributes overwritten.
add_edge(g, u, v, c) ==
    LET g1 == add_node(add_node(g, u), v)
        e  == <<u, v>>
    IN  [g1 EXCEPT
           !.succ[u] = IF v \in Range(@) THEN @ ELSE Append(@, v),
           !.attr = [x \in (DOMAIN g1.attr) \cup {e} |->
                        IF x = e THEN [capacity |-> c, flow |-> 0]
                                 ELSE g1.attr[x]]]

RECURSIVE add_rows(_, _, _)
add_rows(g, csv, i) ==
    IF i > Len(csv) THEN g
    ELSE Strict(LAMBDA g1 : add_rows(g1, csv, i + 1),
                add_edge(g, csv[i].source, csv[i].target, csv[i].capacity))

network_graph(csv) == add_rows(EmptyGraph, csv, 1)

Nodes(g) == Range(g.nodes)

Edges(g) == DOMAIN g.attr

residual(g, u, v) == g.attr[<<u, v>>].capacity - g.attr[<<u, v>>].flow

\* ------------------------------------------------ bfs_augmenting_path
\* The for loop over G[current_node], from the i-th neighbour on.  st holds
\* visited, queue, traversal and whether the sink was just reached.
RECURSIVE bfs_for(_, _, _, _, _)
bfs_for(g, current_node, i, st, sink) ==
    IF i > Len(g.succ[current_node]) THEN st
    ELSE LET next_node == g.succ[current_node][i]
             cap == residual(g, current_node, next_node)
         IN  IF cap > 0 /\ next_node \notin st.visited
             THEN LET st1 ==
                        [visited   |-> st.visited \cup {next_node},
                         traversal |-> (next_node :> current_node) @@ st.traversal,
                         queue     |-> Append(st.queue, next_node),
                         found     |-> next_node = sink]
                  IN  IF next_node = sink THEN st1
                      ELSE Strict(LAMBDA s1 : bfs_for(g, current_node, i + 1, s1, sink),
                                  st1)
             ELSE bfs_for(g, current_node, i + 1, st, sink)

\* Variant: queue.pop() instead of queue.popleft(), the newest node first.
RECURSIVE bfs_while_lifo(_, _, _)
bfs_while_lifo(g, st, sink) ==
    IF st.queue = <<>> THEN st
    ELSE LET current_node == st.queue[Len(st.queue)]
             st1 == bfs_for(g, current_node, 1,
                            [st EXCEPT !.queue = SubSeq(@, 1, Len(@) - 1)], sink)
         IN  Strict(LAMBDA s1 : IF s1.found THEN s1
                                ELSE bfs_while_lifo(g, s1, sink),
                    st1)

RECURSIVE bfs_while(_, _, _)
bfs_while(g, st, sink) ==
    IF st.queue = <<>> THEN st
    ELSE LET current_node == Head(st.queue)
             st1 == bfs_for(g, current_node, 1,
                            [st EXCEPT !.queue = Tail(@)], sink)
         IN  Strict(LAMBDA s1 : IF s1.found THEN s1 ELSE bfs_while(g, s1, sink),
                    st1)

\* Variant: a search that answers at once when asked for the source itself.
bfs_early_exit(g, source, sink) ==
    IF source = sink
    THEN [visited |-> {source}, queue |-> <<>>,
          traversal |-> (source :> None), found |-> TRUE]
    ELSE bfs_while(g, [visited   |-> {source},
                       queue     |-> <<source>>,
                       traversal |-> (source :> None),
                       found     |-> FALSE], sink)

\* found = FALSE is the return value None.  G[source] raises KeyError when
\* the source is no node of G; the callers test KeyErrorAt first.
bfs_augmenting_path(g, source, sink) ==
    bfs_while(g, [visited   |-> {source},
                  queue     |-> <<source>>,
                  traversal |-> (source :> None),
                  found     |-> FALSE], sink)

KeyErrorAt(g, n) == n \notin Nodes(g)

\* ----------------------------------------------- edmonds_karp_maxflow
\* Variant: G_modified = G, a second name for the caller's object.
deepcopy_alias(h, r) == [heap |-> h, ref |-> r]

\* copy.deepcopy(G): a new object holding equal contents.
deepcopy(h, r) == [heap |-> Append(h, h[r]), ref |-> Len(h) + 1]

\* The walk from the sink back to the source, already reversed.
RECURSIVE reconstruct(_, _)
reconstruct(traversal, next_node) ==
    IF traversal[next_node] = None THEN <<>>
    ELSE Strict(LAMBDA current_node :
                    Append(reconstruct(traversal, current_node),
                           <<current_node, next_node>>),
                traversal[next_node])

RECURSIVE bottleneck_from(_, _, _, _)
bottleneck_from(g, path, i, bottleneck) ==
    IF i > Len(path) THEN bottleneck
    ELSE Strict(LAMBDA b : bottleneck_from(g, path, i + 1, b),
                Min(bottleneck, residual(g, path[i][1], path[i][2])))

RECURSIVE bottleneck_max_from(_, _, _, _)
bottleneck_max_from(g, path, i, bottleneck) ==
    IF i > Len(path) THEN bottleneck
    ELSE bottleneck_max_from(g, path, i + 1,
             IF bottleneck > residual(g, path[i][1], path[i][2])
             THEN bottleneck ELSE residual(g, path[i][1], path[i][2]))

\* Variant: the largest residual of the path instead of the smallest.
bottleneck_of_max(g, path) == bottleneck_max_from(g, path, 1, 0)

bottleneck_of(g, path) == bottleneck_from(g, path, 1, inf)

RECURSIVE augment_rest(_, _, _, _)
augment_rest(g, path, i, bottleneck) ==
    IF i > Len(path) THEN g
    ELSE Strict(LAMBDA g1 : augment_rest(g1, path, i + 1, bottleneck),
                [g EXCEPT !.attr[path[i]].flow = @ + bottleneck])

\* Variant: the loop over the path starts at its second edge.
augment_skip_first(g, path, i, bottleneck) ==
    augment_rest(g, path, i + 1, bottleneck)

RECURSIVE augment(_, _, _, _)
augment(g, path, i, bottleneck) ==
    IF i > Len(path) THEN g
    ELSE Strict(LAMBDA g1 : augment(g1, path, i + 1, bottleneck),
                [g EXCEPT !.attr[path[i]].flow = @ + bottleneck])

\* ------------------------------------------------------------ min_cut
RECURSIVE reach_for(_, _, _, _)
reach_for(g, current_node, i, st) ==
    IF i > Len(g.succ[current_node]) THEN st
    ELSE LET next_node == g.succ[current_node][i]
         IN  IF residual(g, current_node, next_node) > 0
                /\ next_node \notin st.visited
             THEN reach_for(g, current_node, i + 1,
                            [visited |-> st.visited \cup {next_node},
                             queue   |-> Append(st.queue, next_node)])
             ELSE reach_for(g, current_node, i + 1, st)

RECURSIVE reach_while(_, _)
reach_while(g, st) ==
    IF st.queue = <<>> THEN st.visited
    ELSE reach_while(g, reach_for(g, Head(st.queue), 1,
                                  [st EXCEPT !.queue = Tail(@)]))

reachable(g, source) ==
    reach_while(g, [visited |-> {source}, queue |-> <<source>>])

\* Variant: T = set(G.nodes()), the subtraction of S forgotten.
unreachable_all(g, S) == Nodes(g)

unreachable(g, S) == Nodes(g) \ S

\* Variant: every edge leaving S, the test on T forgotten.
crossing_all(g, S, T) ==
    {e \in Edges(g) : e[1] \in S}

\* The list comprehension iterates a set, so its order is no part of the
\* result: the cut edges are kept as a set.
crossing(g, S, T) ==
    {e \in Edges(g) : e[1] \in S /\ e[2] \in T}

min_cut(g, source) ==
    LET S == reachable(g, source)
        T == unreachable(g, S)
    IN  [source |-> source, S |-> S, T |-> T, mincut_edges |-> crossing(g, S, T)]

NoCut == [source |-> None, S |-> {}, T |-> {}, mincut_edges |-> {}]

\* --------------------------------------------------- the state machine
VARIABLES pc, heap, G, source, sink, G_modified, max_flow, cut, err

vars == <<pc, heap, G, source, sink, G_modified, max_flow, cut, err>>

Init ==
    /\ pc = "start"
    /\ heap = <<>>
    /\ G = None
    /\ source = None
    /\ sink = None
    /\ G_modified = None
    /\ max_flow = 0
    /\ cut = NoCut
    /\ err = "none"

\* G = network_graph(csv_path)
Build ==
    /\ pc = "start"
    /\ \E csv \in CsvFiles :
         /\ heap' = <<network_graph(csv)>>
         /\ G' = 1
    /\ pc' = "built"
    /\ UNCHANGED <<source, sink, G_modified, max_flow, cut, err>>

\* edmonds_karp_maxflow(G, source, sink) up to the head of its loop
Call ==
    /\ pc = "built"
    /\ \E s \in Names, t \in Names :
         /\ source' = s
         /\ sink' = t
    /\ LET c == deepcopy(heap, G)
       IN  /\ heap' = c.heap
           /\ G_modified' = c.ref
    /\ max_flow' = 0
    /\ pc' = "loop"
    /\ UNCHANGED <<G, cut, err>>

\* the search indexes G_modified[source]: KeyError for an unknown source
SearchRaises ==
    /\ pc = "loop"
    /\ KeyErrorAt(heap[G_modified], source)
    /\ pc' = "error"
    /\ err' = "KeyError"
    /\ UNCHANGED <<heap, G, source, sink, G_modified, max_flow, cut>>

\* Variant: the iteration without its last statement, max_flow += bottleneck.
Augment_untallied ==
    /\ pc = "loop"
    /\ ~KeyErrorAt(heap[G_modified], source)
    /\ \E r \in {bfs_augmenting_path(heap[G_modified], source, sink)} :
         /\ r.found
         /\ \E path \in {reconstruct(r.traversal, sink)} :
              \E bottleneck \in {bottleneck_of(heap[G_modified], path)} :
                 heap' = [heap EXCEPT
                            ![G_modified] = augment(@, path, 1, bottleneck)]
    /\ UNCHANGED <<pc, G, source, sink, G_modified, max_flow, cut, err>>

\* one iteration of the loop that found an augmenting path; traversal, path
\* and bottleneck are computed once each, as the statements of the loop do
Augment ==
    /\ pc = "loop"
    /\ ~KeyErrorAt(heap[G_modified], source)
    /\ \E r \in {bfs_augmenting_path(heap[G_modified], source, sink)} :
         /\ r.found
         /\ \E path \in {reconstruct(r.traversal, sink)} :
              \E bottleneck \in {bottleneck_of(heap[G_modified], path)} :
                 /\ max_flow + bottleneck <= inf   \* the total stays a finite float
                 /\ heap' = [heap EXCEPT
                               ![G_modified] = augment(@, path, 1, bottleneck)]
                 /\ max_flow' = max_flow + bottleneck
    /\ UNCHANGED <<pc, G, source, sink, G_modified, cut, err>>

\* the iteration in which the search returns None: break and return
Return ==
    /\ pc = "loop"
    /\ ~KeyErrorAt(heap[G_modified], source)
    /\ ~bfs_augmenting_path(heap[G_modified], source, sink).found
    /\ pc' = "returned"
    /\ UNCHANGED <<heap, G, source, sink, G_modified, max_flow, cut, err>>

\* min_cut(G, source) on the graph the engine returned, with the source of
\* the flow computation, as main() calls it
MinCut ==
    /\ pc = "returned"
    /\ cut' = min_cut(heap[G_modified], source)
    /\ pc' = "cut"
    /\ UNCHANGED <<heap, G, source, sink, G_modified, max_flow, err>>

Next == Build \/ Call \/ SearchRaises \/ Augment \/ Return \/ MinCut

Spec == Init /\ [][Next]_vars

\* The interpreter runs the loop on: an iteration that can be taken is taken.
FairSpec == Spec /\ WF_vars(Augment) /\ WF_vars(Return)

\* ------------------------------------------------- the reference values
NonNegative(g) == \A e \in Edges(g) : g.attr[e].capacity >= 0

RECURSIVE SumCapacity(_, _)
SumCapacity(g, E) ==
    IF E = {} THEN 0
    ELSE LET e == CHOOSE x \in E : TRUE
         IN  g.attr[e].capacity + SumCapacity(g, E \ {e})

\* nx.maximum_flow(G, source, sink, capacity="capacity") returns the value of
\* a maximum flow, which is the least capacity of a cut separating the sink
\* from the source.
maximum_flow(g, s, t) ==
    LET CutValue(S) ==
            SumCapacity(g, {e \in Edges(g) : e[1] \in S /\ e[2] \notin S})
        Sides == {S \cup {s} : S \in SUBSET (Nodes(g) \ {s, t})}
    IN  CHOOSE c \in {CutValue(S) : S \in Sides} :
            \A S \in Sides : c <= CutValue(S)

Called == pc \in {"loop", "returned", "cut", "error"}

Running == pc \in {"loop", "returned", "cut"}

Finished == pc \in {"returned", "cut"}

AllFlowsZero(g) == \A e \in Edges(g) : g.attr[e].flow = 0

\* ------------------------------------------------------------ the claims

\* C1: for non-negative capacities and source and sink in the graph, the
\* returned flow value equals the summed capacity of the cut edges that
\* min_cut returns on the returned graph.
C1_Duality ==
    (/\ pc = "cut"
     /\ NonNegative(heap[G])
     /\ sink \in Nodes(heap[G]))
    => max_flow = SumCapacity(heap[G_modified], cut.mincut_edges)

\* C2: for non-negative capacities and distinct source and sink in the
\* graph, the returned value is the value of a maximum flow, as the
\* reference computation gives it.
C2_MaximumFlow ==
    (/\ Finished
     /\ NonNegative(heap[G])
     /\ sink \in Nodes(heap[G])
     /\ source # sink)
    => max_flow = maximum_flow(heap[G], source, sink)

\* C3: for non-negative capacities, at the head of the loop after every
\* augmentation and after the return, every edge of the working copy has
\* 0 <= flow <= capacity.
C3_CapacityFeasibility ==
    (Running /\ NonNegative(heap[G]))
    => \A e \in Edges(heap[G_modified]) :
          /\ 0 <= heap[G_modified].attr[e].flow
          /\ heap[G_modified].attr[e].flow <= heap[G_modified].attr[e].capacity

\* an augmentation has happened and left an edge partly filled
C3_Witness ==
    /\ pc = "loop"
    /\ max_flow > 0
    /\ NonNegative(heap[G])
    /\ \E e \in Edges(heap[G_modified]) :
          /\ 0 < heap[G_modified].attr[e].flow
          /\ heap[G_modified].attr[e].flow < heap[G_modified].attr[e].capacity

\* C4: every cut edge min_cut returns on the returned graph is saturated,
\* flow = capacity.
C4_Saturation ==
    pc = "cut"
    => \A e \in cut.mincut_edges :
          heap[G_modified].attr[e].flow = heap[G_modified].attr[e].capacity

\* C5: no step of the call changes the graph object of the caller.
C5_CallerGraphUntouched ==
    [][pc # "start" => heap'[G'] = heap[G]]_vars

\* the call returned after several augmentations of the copy (an edge
\* carries less than the total), the caller's flows all still 0
C5_Witness ==
    /\ pc = "returned"
    /\ G_modified # G
    /\ AllFlowsZero(heap[G])
    /\ \E e \in Edges(heap[G_modified]) :
          /\ 0 < heap[G_modified].attr[e].flow
          /\ heap[G_modified].attr[e].flow < max_flow

\* C6: a call whose source or sink is no node of the graph does not end in
\* a normal result.
C6_UnknownNodeFails ==
    Finished => (source \in Nodes(heap[G]) /\ sink \in Nodes(heap[G]))

\* C7: no constructed graph has an edge of negative capacity.
C7_NegativeCapacityRejected ==
    pc # "start" => NonNegative(heap[G])

\* C8: the two node sets of min_cut are disjoint and together are the nodes
\* of the graph.
C8_Partition ==
    pc = "cut"
    => /\ cut.S \cap cut.T = {}
       /\ cut.S \cup cut.T = Nodes(heap[G_modified])

\* a cut with several nodes on either side
C8_Witness ==
    /\ pc = "cut"
    /\ Cardinality(cut.S) >= 2
    /\ Cardinality(cut.T) >= 2

\* C9: with source = sink a node of the graph the call raises nothing, its
\* value stays 0 and no flow changes.
C9_SourceIsSink ==
    (Called /\ source = sink /\ source \in Nodes(heap[G]))
    => /\ pc # "error"
       /\ max_flow = 0
       /\ heap[G_modified] = heap[G]

\* the call returned for a source that lies on a cycle of open edges
C9_Witness ==
    /\ pc = "returned"
    /\ source = sink
    /\ \E n \in Nodes(heap[G]) :
          /\ n # source
          /\ <<source, n>> \in Edges(heap[G])
          /\ <<n, source>> \in Edges(heap[G])
          /\ residual(heap[G], source, n) > 0
          /\ residual(heap[G], n, source) > 0

\* C10: on the scenario network the flow from A to E is 6 and the cut is the
\* single edge D->E, of capacity 6.
C10_Scenario ==
    (/\ Finished
     /\ heap[G] = network_graph(ScenarioCsv)
     /\ source = 1
     /\ sink = 5)
    => /\ max_flow = 6
       /\ pc = "cut" =>
            /\ cut.mincut_edges = {<<4, 5>>}
            /\ SumCapacity(heap[G_modified], cut.mincut_edges) = 6

\* the cut of the scenario network has been computed
C10_Witness ==
    /\ pc = "cut"
    /\ heap[G] = network_graph(ScenarioCsv)
    /\ source = 1
    /\ sink = 5
    /\ cut.S = {1, 2, 3, 4}

\* C11: for non-negative capacities every iteration that finds a path raises
\* the total by a positive bottleneck, the total never exceeds the summed
\* capacity of the edges leaving the source, and the loop reaches the
\* iteration in which the search returns None.
OutEdges(g, n) == {e \in Edges(g) : e[1] = n}

C11_Termination ==
    /\ [][(pc = "loop" /\ pc' = "loop" /\ NonNegative(heap[G]))
            => max_flow' > max_flow]_vars
    /\ []((Running /\ NonNegative(heap[G]))
            => max_flow <= SumCapacity(heap[G], OutEdges(heap[G], source)))
    /\ ((pc = "loop" /\ NonNegative(heap[G]) /\ source \in Nodes(heap[G]))
            ~> (pc = "returned"))

\* the loop ended after augmentations, below the bound
C11_Witness ==
    /\ pc = "returned"
    /\ NonNegative(heap[G])
    /\ 0 < max_flow
    /\ max_flow < SumCapacity(heap[G], OutEdges(heap[G], source))

\* C12: for distinct source and sink in the graph the search returns None
\* exactly when no path of edges with capacity - flow > 0 leads from the
\* source to the sink; otherwise the walk back from the sink is such a path
\* with the least possible number of edges.
Open(g) == {e \in Edges(g) : residual(g, e[1], e[2]) > 0}

\* the nodes that at most k open edges lead to from s
RECURSIVE Within(_, _, _)
Within(g, s, k) ==
    IF k = 0 THEN {s}
    ELSE LET W == Within(g, s, k - 1)
         IN  W \cup {e[2] : e \in {x \in Open(g) : x[1] \in W}}

Connected(g, s, t) == t \in Within(g, s, Cardinality(Nodes(g)))

Distance(g, s, t) ==
    CHOOSE k \in 0..Cardinality(Nodes(g)) :
        /\ t \in Within(g, s, k)
        /\ \A j \in 0..(k - 1) : t \notin Within(g, s, j)

C12_ShortestAugmentingPath ==
    (/\ pc = "loop"
     /\ source # sink
     /\ source \in Nodes(heap[G])
     /\ sink \in Nodes(heap[G]))
    => LET g == heap[G_modified]
           r == bfs_augmenting_path(g, source, sink)
           path == reconstruct(r.traversal, sink)
       IN  /\ r.found <=> Connected(g, source, sink)
           /\ r.found =>
                /\ Len(path) >= 1
                /\ path[1][1] = source
                /\ path[Len(path)][2] = sink
                /\ \A i \in 1..Len(path) : path[i] \in Open(g)
                /\ \A i \in 1..(Len(path) - 1) : path[i][2] = path[i + 1][1]
                /\ Len(path) = Distance(g, source, sink)

\* a search that finds a path although a longer open route leaves the source
C12_Witness ==
    /\ pc = "loop"
    /\ source # sink
    /\ source \in Nodes(heap[G])
    /\ sink \in Nodes(heap[G])
    /\ bfs_augmenting_path(heap[G_modified], source, sink).found
    /\ \E n \in Nodes(heap[G]) :
          /\ Connected(heap[G_modified], n, sink)
          /\ <<source, n>> \in Open(heap[G_modified])
          /\ Distance(heap[G_modified], n, sink) + 1 >
                Distance(heap[G_modified], source, sink)

\* C13: with source # sink, at the head of the loop after every augmentation
\* and after the return, every node other than the source and the sink has
\* as much flow on its incoming edges as on its outgoing ones, and max_flow
\* is the net flow out of the source and the net flow into the sink.
RECURSIVE SumFlow(_, _)
SumFlow(g, E) ==
    IF E = {} THEN 0
    ELSE LET e == CHOOSE x \in E : TRUE
         IN  g.attr[e].flow + SumFlow(g, E \ {e})

InEdges(g, n) == {e \in Edges(g) : e[2] = n}

InFlow(g, n) == SumFlow(g, InEdges(g, n))

OutFlow(g, n) == SumFlow(g, OutEdges(g, n))

C13_FlowConservation ==
    (/\ Running
     /\ source # sink
     /\ source \in Nodes(heap[G]))
    => LET g == heap[G_modified]
       IN  /\ \A n \in Nodes(g) \ {source, sink} : InFlow(g, n) = OutFlow(g, n)
           /\ max_flow = OutFlow(g, source) - InFlow(g, source)
           /\ max_flow = InFlow(g, sink) - OutFlow(g, sink)

\* two augmenting paths have met in an inner node
C13_Witness ==
    /\ pc = "loop"
    /\ source # sink
    /\ \E n \in Nodes(heap[G]) \ {source, sink} :
          /\ OutFlow(heap[G_modified], n) > 0
          /\ \E e1, e2 \in InEdges(heap[G_modified], n) :
                /\ e1 # e2
                /\ heap[G_modified].attr[e1].flow > 0
                /\ heap[G_modified].attr[e2].flow > 0

====
